---- MODULE Spec2Model ----
(***************************************************************************)
(* org-linter: clock model, document parser, conflict detector, conflict   *)
(* resolver and patch applier, as state machines over bounded inputs.      *)
(*                                                                         *)
(* Conventions                                                             *)
(*  - Option<T> is a sequence of length 0 (None) or 1 (Some(x)); its order *)
(*    is Rust's derived order: None < Some(x), Some(x) < Some(y) iff x<y.  *)
(*  - A NaiveDateTime is a number of minutes counted from 2019-04-30 00:00 *)
(*    so that the time-zone cutoff date 2019-05-01 is day 1.               *)
(*  - A text is a sequence of tokens; a token stands for one or more       *)
(*    characters ("\n", "*", " ", a word, the text of a clock, a block     *)
(*    delimiter).                                                          *)
(*  - A PathBuf is a natural number, ordered as the paths are.             *)
(*  - Indices kept by the program (Clock.parent, Headline.parent, last_i,  *)
(*    last_j) are 0-based as in the source; sequences are 1-based.         *)
(***************************************************************************)
EXTENDS Integers, Sequences, FiniteSets, TLC

VARIABLES
    now,        \* the reading of Local::now().naive_local()
    pc,         \* position of the driver
    content,    \* file -> text of the file
    docs,       \* the parsed documents, Seq(OrgDocument)
    iter,       \* the ClockConflictIterator
    found,      \* the conflicts the iterator has yielded so far
    conflict,   \* Option(ClockConflict): the conflict being handled
    options,    \* resolution_options() of that conflict
    resolution, \* Option(ConflictResolution): the resolution passed to resolve
    changes,    \* outcome of resolve(): edits or a panic
    result,     \* outcome of apply_to_string(): text or an error
    clock1,     \* first argument of a call on two clocks
    clock2,     \* second argument of a call on two clocks
    ret,        \* value returned by the last call of a pure function
    parser,     \* Option: the locals of OrgDocument::parse while it runs
    skipped     \* the hashme values of the conflicts skipped so far

vars == <<now, pc, content, docs, iter, found, conflict, options, resolution,
          changes, result, clock1, clock2, ret, parser, skipped>>

----------------------------------------------------------------------------
(* Bounds *)

\* number of minutes after the first modelled minute that timestamps range over
MaxTime == 3

\* largest number of edits in a batch given to apply_to_string
MaxBatch == 2

\* largest number of lines of a text given to the parser line by line
MaxLines == 4

----------------------------------------------------------------------------
(* Option *)

None == <<>>
Some(x) == <<x>>
IsSome(o) == Len(o) = 1
Unwrap(o) == o[1]

\* Rust's derived PartialOrd on Option: None is the least element
OptLt(a, b) == IF a = None THEN b # None ELSE b # None /\ a[1] < b[1]
OptLe(a, b) == a = b \/ OptLt(a, b)
OptMax(a, b) == IF OptLt(a, b) THEN b ELSE a

Min2(a, b) == IF b < a THEN b ELSE a

\* Result: a value, an error value, or a panic that unwinds the caller
Ok(v) == [tag |-> "Ok", val |-> v]
Panic(msg) == [tag |-> "Panic", val |-> msg]
Err(msg) == [tag |-> "Err", val |-> msg]
Abs(n) == IF n < 0 THEN -n ELSE n

----------------------------------------------------------------------------
(* clock.rs: time zones *)

\* 2019-05-01, as a day number counted from 2019-04-30
TZ_CUTOFF_DATE == 1

\* NaiveDateTime::date(): the day a minute falls on
date(dt) == dt \div 1440

\* the modelled timestamps: a window around midnight of the cutoff date
FirstTime == TZ_CUTOFF_DATE * 1440 - 2
Times == FirstTime .. (FirstTime + MaxTime)
LastTime == FirstTime + MaxTime

tz_for_date(d) == IF d < TZ_CUTOFF_DATE THEN "US/Pacific" ELSE "Europe/Berlin"

\* NaiveDateTime::and_local_timezone(tz).unwrap(): the instant, in minutes of
\* UTC, of a local time in a zone.  Around the cutoff date US/Pacific is at
\* UTC-7 and Europe/Berlin at UTC+2, and no local time of the window is
\* ambiguous or skipped, so unwrap() does not panic.
and_local_timezone(dt, tz) == IF tz = "US/Pacific" THEN dt + 420 ELSE dt - 120

\* start_end(start, end): both ends in the zone of the start's date; an
\* absent end is the current time
start_end(start, end) ==
    LET tz == tz_for_date(date(start))
        e  == IF IsSome(end) THEN Unwrap(end) ELSE now
    IN  <<and_local_timezone(start, tz), and_local_timezone(e, tz)>>

----------------------------------------------------------------------------
(* clock.rs: Clock *)

TimestampType == {"Active", "Inactive"}

\* the text of a duration, -?H:MM
DurationText(neg, h, m) == [neg |-> neg, h |-> h, m |-> m]

Clock(line, parent, duration_string, start, end, timestamp_type) ==
    [line |-> line, parent |-> parent, duration_string |-> duration_string,
     start |-> start, end |-> end, timestamp_type |-> timestamp_type]

is_running(c) == c.end = None

\* Clock::duration(), in minutes
duration(c) == IF c.end = None THEN 0 ELSE Unwrap(c.end) - c.start

duration_formatted(c) ==
    LET d        == duration(c)
        negative == d < 0
        hours    == Abs(d) \div 60
        minutes  == Abs(d) - hours * 60
    IN  DurationText(negative, hours, minutes)

\* (variant of overlaps in which touching intervals count as overlapping)
overlaps_closed_left(self, other) ==
    LET se == start_end(self.start, self.end)
        oe == start_end(other.start, other.end)
    IN  ~(se[2] < oe[1] \/ se[1] > oe[2])

\* Clock::overlaps
overlaps(self, other) ==
    LET se == start_end(self.start, self.end)
        oe == start_end(other.start, other.end)
    IN  ~(se[2] <= oe[1] \/ se[1] >= oe[2])

\* the text Display writes for a clock, as a token of a line
ClockText(timestamp_type, start, end, dur) ==
    [k |-> "clock", timestamp_type |-> timestamp_type, start |-> start,
     end |-> end, dur |-> dur]

\* impl Display for Clock: start, and for a closed clock the end and the
\* duration computed from start and end (not the recorded duration_string)
Display(c) ==
    ClockText(c.timestamp_type, c.start, c.end,
              IF IsSome(c.end) THEN Some(duration_formatted(c)) ELSE None)

----------------------------------------------------------------------------
(* Texts, str::lines *)

NL == [k |-> "nl"]
CR == [k |-> "cr"]
Star == [k |-> "star"]
Space == [k |-> "sp"]
Word(w) == [k |-> "word", w |-> w]
Tags(t) == [k |-> "tags", t |-> t]
\* a text that CLOCK_RE matches but whose digits are no date or time: for the
\* start and for the end timestamp the field that is out of range ("month",
\* "day", "hour", "minute"), or "none"
BadClockText(start_bad, end_bad) ==
    [k |-> "badclock", start_bad |-> start_bad, end_bad |-> end_bad]
BlockBegin(kind) == [k |-> "begin", kind |-> kind]
BlockEnd(kind) == [k |-> "end", kind |-> kind]

IsWhite(t) == t.k \in {"sp", "cr"}

\* a line without its terminator: "\n", or "\r\n"
StripCR(l) ==
    IF Len(l) > 0 /\ l[Len(l)] = CR THEN SubSeq(l, 1, Len(l) - 1) ELSE l

RECURSIVE SplitLines(_, _, _)
SplitLines(text, i, cur) ==
    IF i > Len(text)
    THEN IF cur = <<>> THEN <<>> ELSE <<cur>>
    ELSE IF text[i] = NL
         THEN <<StripCR(cur)>> \o SplitLines(text, i + 1, <<>>)
         ELSE SplitLines(text, i + 1, Append(cur, text[i]))

\* str::lines(): the lines of a text; a final line need not be terminated,
\* and a text ending in "\n" has no empty last line
lines(text) == SplitLines(text, 1, <<>>)

\* the text a sequence of lines makes when each is followed by "\n"
RECURSIVE JoinLines(_)
JoinLines(ls) ==
    IF ls = <<>> THEN <<>> ELSE Head(ls) \o <<NL>> \o JoinLines(Tail(ls))

\* least index from i on whose token satisfies / does not satisfy a kind test,
\* Len+1 when there is none
RECURSIVE SkipKind(_, _, _)
SkipKind(l, i, kinds) ==
    IF i <= Len(l) /\ l[i].k \in kinds THEN SkipKind(l, i + 1, kinds) ELSE i

RECURSIVE FindKind(_, _, _)
FindKind(l, i, kinds) ==
    IF i <= Len(l) /\ l[i].k \notin kinds THEN FindKind(l, i + 1, kinds) ELSE i

----------------------------------------------------------------------------
(* headline.rs *)

Headline(line, parent, level, title, tags_string) ==
    [line |-> line, parent |-> parent, level |-> level, title |-> title,
     tags_string |-> tags_string]

\* TITLE_TAGS_RE = (.+?)\s+(:[^\s]+:)\s*$ on the text after the markers
SplitTags(rest) ==
    LET n == Len(rest)
        RECURSIVE LastNonWhite(_)
        LastNonWhite(i) ==
            IF i >= 1 /\ IsWhite(rest[i]) THEN LastNonWhite(i - 1) ELSE i
        t == LastNonWhite(n)
        j == IF t >= 1 THEN LastNonWhite(t - 1) ELSE 0
    IN  IF t >= 2 /\ rest[t].k = "tags" /\ j >= 1 /\ j < t - 1
        THEN <<SubSeq(rest, 1, j), Some(rest[t])>>
        ELSE <<rest, None>>

\* Headline::try_from: HEADLINE_RE = (\*+)\s*(.+), searched anywhere in the
\* line (the pattern has no ^ anchor).  The leftmost match starts at the first
\* marker of the line; when nothing follows the markers the last marker, and
\* when only blanks follow them the last blank, is given to (.+).
Headline_try_from_anchored(s) ==
    LET q == SkipKind(s, 1, {"star"})
        w == SkipKind(s, q, {"sp", "cr"})
    IN  IF q = 1 \/ q > Len(s) THEN None
        ELSE Some(Headline(0, 0, q - 1,
                           SubSeq(s, IF w > Len(s) THEN Len(s) ELSE w, Len(s)), None))

Headline_try_from(s) ==
    LET p == FindKind(s, 1, {"star"})
        q == SkipKind(s, p, {"star"})
        w == SkipKind(s, q, {"sp", "cr"})
    IN  IF p > Len(s) THEN None
        ELSE IF q > Len(s)
        THEN IF q - p >= 2
             THEN Some(Headline(0, 0, q - p - 1, <<Star>>, None))
             ELSE None
        ELSE LET rest == SubSeq(s, IF w > Len(s) THEN Len(s) ELSE w, Len(s))
                 tt   == SplitTags(rest)
             IN  Some(Headline(0, 0, q - p, tt[1], tt[2]))

----------------------------------------------------------------------------
(* clock.rs: Clock::try_from *)

\* the local function datetime of Clock::try_from, on a timestamp whose field
\* `bad` is out of range.  Local.with_ymd_and_hms(year, month, day, 0, 0, 0)
\* is LocalResult::None for a month or day that is no date, and
\* .single().unwrap() panics on it; an hour or minute out of range makes
\* tz.with_ymd_and_hms(..) LocalResult::None, which has no earliest() and no
\* latest(): the error "unable create date".
datetime(bad) ==
    IF bad \in {"month", "day"}
    THEN Panic("called Option::unwrap() on a None value")
    ELSE IF bad \in {"hour", "minute"} THEN Err("unable create date")
    ELSE Ok("date")

\* Clock::try_from.  CLOCK_RE is searched anywhere in the line; the first
\* clock text of the line is taken; the start is converted before the end.
\* line and parent are 0 until the caller fills them in.
Clock_try_from(s) ==
    LET p == FindKind(s, 1, {"clock", "badclock"})
    IN  IF p > Len(s) THEN Err("unable to parse as clock")
        ELSE IF s[p].k = "clock"
        THEN Ok(Clock(0, 0, s[p].dur, s[p].start, s[p].end, s[p].timestamp_type))
        ELSE IF datetime(s[p].start_bad).tag = "Panic" THEN datetime(s[p].start_bad)
        ELSE IF datetime(s[p].start_bad).tag = "Err" THEN Err("error parsing start")
        ELSE IF datetime(s[p].end_bad).tag = "Panic" THEN datetime(s[p].end_bad)
        ELSE Err("error parsing end")

----------------------------------------------------------------------------
(* block.rs *)

Block(start_line, end_line, kind) ==
    [start_line |-> start_line, end_line |-> end_line, kind |-> kind]

\* Block::try_from: BLOCK_START_RE searched anywhere in the line
Block_try_from(s) ==
    LET p == FindKind(s, 1, {"begin"})
    IN  IF p > Len(s) THEN None ELSE Some(Block(0, 0, s[p].kind))

\* Block::parse_end: the first end delimiter of the line closes the block
\* when its kind is, letter for letter, the kind of the begin delimiter
parse_end(block, s) ==
    LET p == FindKind(s, 1, {"end"})
    IN  p <= Len(s) /\ s[p].kind = block.kind

----------------------------------------------------------------------------
(* org_document.rs *)

OrgDocument(file, headlines, clocks) ==
    [file |-> file, headlines |-> headlines, clocks |-> clocks]

\* (variant of the loop that leaves a sibling on the stack: pops while the
\* top level > level)
RECURSIVE PopParents_keeps_siblings(_, _)
PopParents_keeps_siblings(parents, level) ==
    IF parents # <<>> /\ parents[Len(parents)][2] > level
    THEN PopParents_keeps_siblings(SubSeq(parents, 1, Len(parents) - 1), level)
    ELSE parents

\* the while loop of the heading branch: pop while the top level >= level
RECURSIVE PopParents(_, _)
PopParents(parents, level) ==
    IF parents # <<>> /\ parents[Len(parents)][2] >= level
    THEN PopParents(SubSeq(parents, 1, Len(parents) - 1), level)
    ELSE parents

\* (variant of last that gives the bottom of the stack)
bottom(parents) == parents[1]

\* parents.last(), for a stack that is not empty
last(parents) == parents[Len(parents)]

\* one iteration of the loop over the lines; st holds the locals
\* headlines, clocks, parents (pairs <<index, level>>) and current_block,
\* and whether a panic has unwound the function
ParseLine(st, s, line_no) ==
    IF st.panicked THEN st
    ELSE IF IsSome(st.current_block)
    THEN IF parse_end(Unwrap(st.current_block), s)
         THEN [st EXCEPT !.current_block = None]
         ELSE st
    ELSE IF IsSome(Block_try_from(s))
    THEN [st EXCEPT !.current_block =
              Some([Unwrap(Block_try_from(s)) EXCEPT !.start_line = line_no])]
    ELSE IF IsSome(Headline_try_from(s))
    THEN LET h0      == Unwrap(Headline_try_from(s))
             parents == PopParents(st.parents, h0.level)
             h       == [h0 EXCEPT !.line = line_no,
                                   !.parent = IF parents # <<>>
                                              THEN last(parents)[1]
                                              ELSE 0]
         IN  [st EXCEPT !.parents = Append(parents, <<Len(st.headlines), h.level>>),
                        !.headlines = Append(st.headlines, h)]
    ELSE IF Clock_try_from(s).tag = "Panic"
    THEN [st EXCEPT !.panicked = TRUE]
    ELSE IF Clock_try_from(s).tag = "Ok"
    THEN IF st.parents # <<>>
         THEN [st EXCEPT !.clocks = Append(st.clocks,
                  [Clock_try_from(s).val EXCEPT
                       !.line = line_no,
                       !.parent = last(st.parents)[1]])]
         ELSE st
    ELSE st

RECURSIVE ParseLines(_, _, _)
ParseLines(st, ls, i) ==
    IF i > Len(ls) THEN st ELSE ParseLines(ParseLine(st, ls[i], i), ls, i + 1)

\* the locals of OrgDocument::parse before the first line
ParseStart ==
    [headlines |-> <<>>, clocks |-> <<>>, parents |-> <<>>,
     current_block |-> None, panicked |-> FALSE]

\* OrgDocument::parse, for a text no line of which makes Clock::try_from
\* panic (with such a line parse does not return: see SpecParse)
parse(file, text) ==
    LET st == ParseLines(ParseStart, lines(text), 1)
    IN  OrgDocument(file, st.headlines, st.clocks)

----------------------------------------------------------------------------
(* clock_conflict.rs: ClockConflict *)

ConflictResolution ==
    {"ShrinkEarlier", "ShrinkLater", "SplitContaining", "RemoveInner", "Auto", "Skip"}

ClockConflict(clock1_, clock2_, headline1, headline2, file1, file2) ==
    [clock1 |-> clock1_, clock2 |-> clock2_, headline1 |-> headline1,
     headline2 |-> headline2, file1 |-> file1, file2 |-> file2]

\* (variant of the Hash impl that orders the two (file, clock) pairs together)
hash_by_file_and_line(c) ==
    IF c.file1 < c.file2 \/ (c.file1 = c.file2 /\ c.clock1.line <= c.clock2.line)
    THEN <<c.file1, c.file2, c.clock1, c.clock2>>
    ELSE <<c.file2, c.file1, c.clock2, c.clock1>>

\* impl Hash for ClockConflict: the sequence of values fed to the hasher.  The
\* two files are ordered by path, and separately the two clocks by line; each
\* clock feeds all its fields (derive(Hash)).
hash(c) ==
    LET files  == IF c.file1 < c.file2 THEN <<c.file1, c.file2>>
                                       ELSE <<c.file2, c.file1>>
        clocks == IF c.clock1.line < c.clock2.line THEN <<c.clock1, c.clock2>>
                                                   ELSE <<c.clock2, c.clock1>>
    IN  <<files[1], files[2], clocks[1], clocks[2]>>

\* ClockConflict::hashme: DefaultHasher over hash(); the 64-bit digest is
\* modelled by the hashed sequence itself (no collisions)
hashme(c) == hash(c)

\* impl PartialEq for ClockConflict
eq(c, other) == hashme(c) = hashme(other)

\* the Vec built by find_conflicts: one (file, headline, clock) per clock
RECURSIVE FlattenClocks(_, _, _)
FlattenClocks(org_docs, d, k) ==
    IF d > Len(org_docs) THEN <<>>
    ELSE IF k > Len(org_docs[d].clocks) THEN FlattenClocks(org_docs, d + 1, 1)
    ELSE LET doc   == org_docs[d]
             clock == doc.clocks[k]
         IN  <<[file |-> doc.file, headline |-> doc.headlines[clock.parent + 1],
                clock |-> clock]>> \o FlattenClocks(org_docs, d, k + 1)

\* ClockConflict::find_conflicts
find_conflicts(org_docs) ==
    [data |-> FlattenClocks(org_docs, 1, 1), last_i |-> 0, last_j |-> 0, seen |-> {}]

ConflictAt(data, i, j) ==
    ClockConflict(data[i + 1].clock, data[j + 1].clock,
                  data[i + 1].headline, data[j + 1].headline,
                  data[i + 1].file, data[j + 1].file)

\* the two nested loops of ClockConflictIterator::next from position (i, j):
\* the first pair that overlaps and whose hash is not in seen, or None
RECURSIVE ScanFrom(_, _, _)
ScanFrom(it, i, j) ==
    LET n == Len(it.data) IN
    IF i >= n THEN None
    ELSE IF j >= n THEN ScanFrom(it, i + 1, 0)
    ELSE IF i = it.last_i /\ j < it.last_j THEN ScanFrom(it, i, j + 1)
    ELSE IF i # j /\ overlaps(it.data[i + 1].clock, it.data[j + 1].clock)
              /\ hashme(ConflictAt(it.data, i, j)) \notin it.seen
         THEN Some(<<i, j>>)
         ELSE ScanFrom(it, i, j + 1)

\* ClockConflictIterator::next: <<iterator after the call, Option(conflict)>>
next(it) ==
    LET at == ScanFrom(it, it.last_i, 0)
    IN  IF at = None THEN <<it, None>>
        ELSE LET i == Unwrap(at)[1]
                 j == Unwrap(at)[2]
                 c == ConflictAt(it.data, i, j)
             IN  <<[it EXCEPT !.last_i = i, !.last_j = j,
                              !.seen = it.seen \cup {hashme(c)}],
                   Some(c)>>

SameHeading(c) == c.file1 = c.file2 /\ c.headline1.line = c.headline2.line

\* (variant of resolution_options that tests containment the other way round)
resolution_options_swapped(c) ==
    IF SameHeading(c) THEN <<"Auto", "Skip">>
    ELSE LET first   == c.clock1.start <= c.clock2.start
             earlier == IF first THEN c.clock1 ELSE c.clock2
             later   == IF first THEN c.clock2 ELSE c.clock1
         IN  IF OptLt(later.end, earlier.end)
             THEN <<"ShrinkEarlier", "ShrinkLater", "Skip">>
             ELSE <<"RemoveInner", "SplitContaining", "Skip">>

\* ClockConflict::resolution_options
resolution_options(c) ==
    IF SameHeading(c) THEN <<"Auto", "Skip">>
    ELSE LET first   == c.clock1.start <= c.clock2.start
             earlier == IF first THEN c.clock1 ELSE c.clock2
             later   == IF first THEN c.clock2 ELSE c.clock1
         IN  IF OptLt(earlier.end, later.end)
             THEN <<"ShrinkEarlier", "ShrinkLater", "Skip">>
             ELSE <<"RemoveInner", "SplitContaining", "Skip">>

----------------------------------------------------------------------------
(* clock_conflict.rs: FileChange *)

FileChange(kind, file, clock) == [kind |-> kind, file |-> file, clock |-> clock]
\* (variant of add that names the other of the two files)
add_to_other_file(file, clock) == FileChange("AddedClock", 3 - file, clock)
add(file, clock) == FileChange("AddedClock", file, clock)
delete(file, clock) == FileChange("DeletedClock", file, clock)
update(file, clock) == FileChange("UpdateClock", file, clock)

\* (variant of the merge that keeps the start of the kept clock)
merge_clocks_keep_start(keep_clock, delete_clock) ==
    [keep_clock EXCEPT !.end = OptMax(keep_clock.end, delete_clock.end)]

\* the two assignments to keep_clock in resolve: start := min of the starts,
\* end := max of the ends (Option's order, an absent end being the least)
merge_clocks(keep_clock, delete_clock) ==
    [keep_clock EXCEPT !.start = Min2(keep_clock.start, delete_clock.start),
                       !.end = OptMax(keep_clock.end, delete_clock.end)]

\* (variant of resolve that answers every resolution, Skip included, by
\* deleting the second clock)
resolve_always_deletes(c, res) == Ok(<<delete(c.file2, c.clock2)>>)

\* ClockConflict::resolve: the edits, or a panic (an invalid resolution, or
\* unwrap() of an absent end)
resolve(c, res) ==
    IF res = "Skip" THEN Ok(<<>>)
    ELSE IF SameHeading(c)
    THEN LET first == c.clock1.line <= c.clock2.line
             keep  == IF first THEN c.clock1 ELSE c.clock2
             del   == IF first THEN c.clock2 ELSE c.clock1
         IN  Ok(<<update(c.file1, merge_clocks(keep, del)), delete(c.file2, del)>>)
    ELSE LET first        == c.clock1.start <= c.clock2.start
             earlier      == IF first THEN c.clock1 ELSE c.clock2
             earlier_file == IF first THEN c.file1 ELSE c.file2
             later        == IF first THEN c.clock2 ELSE c.clock1
             later_file   == IF first THEN c.file2 ELSE c.file1
         IN  IF OptLt(earlier.end, later.end)
             THEN CASE res = "ShrinkEarlier" ->
                         Ok(<<update(earlier_file,
                                     [earlier EXCEPT !.end = Some(later.start)])>>)
                    [] res = "ShrinkLater" ->
                         IF earlier.end = None
                         THEN Panic("called Option::unwrap() on a None value")
                         ELSE Ok(<<update(later_file,
                                   [later EXCEPT !.start = Unwrap(earlier.end)])>>)
                    [] OTHER -> Panic("invalid resolution")
             ELSE CASE res = "SplitContaining" ->
                         IF later.end = None
                         THEN Panic("called Option::unwrap() on a None value")
                         ELSE Ok(<<update(earlier_file,
                                     [earlier EXCEPT !.end = Some(later.start)]),
                                   add(earlier_file,
                                     [earlier EXCEPT !.start = Unwrap(later.end)])>>)
                    [] res = "RemoveInner" -> Ok(<<delete(later_file, later)>>)
                    [] OTHER -> Panic("invalid resolution")

\* the closure given to sort_by in apply_to_string
Compare(a, b) ==
    IF a.clock.line < b.clock.line THEN "Less"
    ELSE IF a.clock.line > b.clock.line THEN "Greater"
    ELSE IF a.kind = "AddedClock" /\ b.kind = "AddedClock" THEN "Equal"
    ELSE IF a.kind = "AddedClock" THEN "Less"
    ELSE IF b.kind = "AddedClock" THEN "Greater"
    ELSE "Equal"

\* slice::sort_by is a stable sort: x goes after the elements not greater
RECURSIVE InsertSorted(_, _)
InsertSorted(sorted, x) ==
    IF sorted = <<>> THEN <<x>>
    ELSE IF Compare(x, Head(sorted)) = "Less"
         THEN <<x>> \o sorted
         ELSE <<Head(sorted)>> \o InsertSorted(Tail(sorted), x)

RECURSIVE sort_by(_)
sort_by(s) ==
    IF s = <<>> THEN <<>>
    ELSE InsertSorted(sort_by(SubSeq(s, 1, Len(s) - 1)), s[Len(s)])

Reverse(s) == [i \in 1 .. Len(s) |-> s[Len(s) + 1 - i]]

\* the loop of modify_file_content over content.lines().enumerate()
RECURSIVE ModifyLines(_, _, _)
ModifyLines(change, ls, line_no) ==
    IF line_no >= Len(ls) THEN <<>>
    ELSE LET line == ls[line_no + 1]
             rest == ModifyLines(change, ls, line_no + 1)
             text == <<Display(change.clock), NL>>
         IN  IF line_no = change.clock.line - 1
             THEN CASE change.kind = "DeletedClock" -> rest
                    [] change.kind = "UpdateClock" -> text \o rest
                    [] change.kind = "AddedClock" -> text \o line \o <<NL>> \o rest
             ELSE line \o <<NL>> \o rest

\* FileChange::modify_file_content
modify_file_content(change, text) == ModifyLines(change, lines(text), 0)

RECURSIVE ApplyAll(_, _)
ApplyAll(cs, text) ==
    IF cs = <<>> THEN text
    ELSE ApplyAll(Tail(cs), modify_file_content(Head(cs), text))

\* (variant of apply_to_string without the check of the files)
apply_to_string_unchecked(cs, file_content) ==
    IF cs = <<>> THEN Ok(file_content)
    ELSE Ok(ApplyAll(Reverse(sort_by(cs)), file_content))

\* FileChange::apply_to_string
apply_to_string(cs, file_content) ==
    IF cs = <<>> THEN Ok(file_content)
    ELSE LET sorted == Reverse(sort_by(cs))
         IN  IF \E i \in 2 .. Len(sorted) : sorted[i].file # sorted[1].file
             THEN Err("changes don't point to the same file")
             ELSE Ok(ApplyAll(sorted, file_content))

----------------------------------------------------------------------------
(* Inputs *)

Files == {1, 2}

\* the clock texts of the input files: closed clocks of positive duration
\* with their recorded duration, and running clocks
ClosedClockTexts ==
    {ClockText("Inactive", s, Some(e), Some(DurationText(FALSE, 0, e - s))) :
        <<s, e>> \in {p \in Times \X Times : p[1] < p[2]}}
RunningClockTexts == {ClockText("Inactive", s, None, None) : s \in Times}

HeadingLine == <<Star, Space, Word("h")>>

\* the texts of a layout, a sequence of "h" (a heading line) and "c" (a clock
\* line with one of the given clock texts); every line ends in "\n"
RECURSIVE LayoutLines(_, _)
LayoutLines(layout, clockTexts) ==
    IF layout = <<>> THEN {<<>>}
    ELSE LET first == IF Head(layout) = "h" THEN {HeadingLine}
                      ELSE {<<Space, t>> : t \in clockTexts}
         IN  {<<l>> \o rest : l \in first,
                              rest \in LayoutLines(Tail(layout), clockTexts)}

LayoutTexts(layouts, clockTexts) ==
    UNION {{JoinLines(ls) : ls \in LayoutLines(layout, clockTexts)} :
              layout \in layouts}

ParseAll(cont) == [d \in 1 .. Cardinality(Files) |-> parse(d, cont[d])]

NoIter == find_conflicts(<<>>)

----------------------------------------------------------------------------
(* SpecClock: calls of Clock::overlaps on two parsed clocks *)

ProbeClocks ==
    {Clock(0, 0, None, s, e, "Inactive") :
        s \in Times, e \in {None} \cup {Some(t) : t \in Times}}

InitClock ==
    /\ parser = None /\ skipped = {}
    /\ now \in Times \cup {LastTime + 1}
    /\ clock1 \in ProbeClocks
    /\ clock2 \in ProbeClocks
    /\ pc = "call"
    /\ ret = None
    /\ content = <<>> /\ docs = <<>> /\ iter = NoIter /\ found = <<>>
    /\ conflict = None /\ options = <<>> /\ resolution = None
    /\ changes = None /\ result = None

CallOverlaps ==
    /\ pc = "call"
    /\ ret' = Some(overlaps(clock1, clock2))
    /\ pc' = "done"
    /\ UNCHANGED <<parser, skipped, now, content, docs, iter, found, conflict, options,
                   resolution, changes, result, clock1, clock2>>

NextClock == CallOverlaps

SpecClock == InitClock /\ [][NextClock]_vars

----------------------------------------------------------------------------
(* SpecHash: the identity of a conflict and of its mirror image *)

\* (file, headline, clock) triples as find_conflicts collects them: the clock
\* lies below its heading, and one line of one file holds one clock
HashTriples ==
    {[file |-> f, headline |-> Headline(1, 0, 1, <<Word("h")>>, None),
      clock |-> Clock(l, 0, t.dur, t.start, t.end, t.timestamp_type)] :
        f \in Files, l \in {2, 3}, t \in ClosedClockTexts}

Mirror(c) ==
    ClockConflict(c.clock2, c.clock1, c.headline2, c.headline1, c.file2, c.file1)

InitHash ==
    /\ parser = None /\ skipped = {}
    /\ now = LastTime + 1
    /\ \E a \in HashTriples, b \in HashTriples :
          /\ (a.file = b.file /\ a.clock.line = b.clock.line) => a = b
          /\ conflict = Some(ClockConflict(a.clock, b.clock, a.headline,
                                           b.headline, a.file, b.file))
    /\ pc = "call"
    /\ ret = None
    /\ content = <<>> /\ docs = <<>> /\ iter = NoIter /\ found = <<>>
    /\ options = <<>> /\ resolution = None
    /\ changes = None /\ result = None
    /\ clock1 = None /\ clock2 = None

CallHashme ==
    /\ pc = "call"
    /\ LET c == Unwrap(conflict)
       IN  ret' = Some([h12 |-> hashme(c), h21 |-> hashme(Mirror(c)),
                        eq |-> eq(c, Mirror(c))])
    /\ pc' = "done"
    /\ UNCHANGED <<parser, skipped, now, content, docs, iter, found, conflict, options,
                   resolution, changes, result, clock1, clock2>>

NextHash == CallHashme

SpecHash == InitHash /\ [][NextHash]_vars

----------------------------------------------------------------------------
(* SpecDetect: find_conflicts over two parsed files, driven to exhaustion *)

DetectLayouts == {<<>>, <<"h", "c">>, <<"h", "c", "c">>}

InitDetect ==
    /\ parser = None /\ skipped = {}
    /\ now = LastTime + 1
    /\ content \in [Files -> LayoutTexts(DetectLayouts, ClosedClockTexts)]
    /\ docs = ParseAll(content)
    /\ iter = find_conflicts(docs)
    /\ found = <<>>
    /\ pc = "detect"
    /\ conflict = None /\ options = <<>> /\ resolution = None
    /\ changes = None /\ result = None
    /\ clock1 = None /\ clock2 = None /\ ret = None

\* next() returns Some(conflict)
NextSome ==
    /\ pc \in {"detect", "conflict"}
    /\ next(iter)[2] # None
    /\ iter' = next(iter)[1]
    /\ conflict' = next(iter)[2]
    /\ found' = Append(found, Unwrap(next(iter)[2]))
    /\ pc' = "conflict"
    /\ UNCHANGED <<parser, skipped, now, content, docs, options, resolution, changes, result,
                   clock1, clock2, ret>>

\* next() returns None
NextNone ==
    /\ pc \in {"detect", "conflict"}
    /\ next(iter)[2] = None
    /\ iter' = next(iter)[1]
    /\ conflict' = None
    /\ pc' = "exhausted"
    /\ UNCHANGED <<parser, skipped, now, content, docs, found, options, resolution, changes,
                   result, clock1, clock2, ret>>

NextDetect == NextSome \/ NextNone

SpecDetect == InitDetect /\ [][NextDetect]_vars

----------------------------------------------------------------------------
(* Claims about the conflict detector (SpecDetect) *)

\* the clock entry a side of a conflict stands for: a file and a clock of it
Side1(c) == <<c.file1, c.clock1>>
Side2(c) == <<c.file2, c.clock2>>
PairOf(c) == {Side1(c), Side2(c)}
EntryAt(i) == <<iter.data[i].file, iter.data[i].clock>>
Reports(p) == {m \in 1 .. Len(found) : PairOf(found[m]) = p}

\* C1: every overlapping pair of clocks {A,B} is represented by exactly one
\* reported conflict: a pair met again as (B,A) is never reported a second
\* time, whatever the files and lines of A and B, and once the iterator is
\* exhausted each overlapping pair has its one report.
C1_PairReportedOnce ==
    \A i, j \in 1 .. Len(iter.data) :
        (i < j /\ overlaps(iter.data[i].clock, iter.data[j].clock)) =>
            /\ Cardinality(Reports({EntryAt(i), EntryAt(j)})) <= 1
            /\ pc = "exhausted" =>
                   Cardinality(Reports({EntryAt(i), EntryAt(j)})) = 1

\* C2: find_conflicts is sound and complete against the brute-force
\* definition: when the iterator is exhausted it has yielded a conflict for
\* every unordered pair of distinct clock entries that overlap, and every
\* conflict it yielded is a pair of two distinct entries that overlap.
C2_SoundAndComplete ==
    pc = "exhausted" =>
        /\ \A i, j \in 1 .. Len(iter.data) :
               (i < j /\ overlaps(iter.data[i].clock, iter.data[j].clock)) =>
                   Reports({EntryAt(i), EntryAt(j)}) # {}
        /\ \A m \in 1 .. Len(found) :
               /\ overlaps(found[m].clock1, found[m].clock2)
               /\ Side1(found[m]) # Side2(found[m])

----------------------------------------------------------------------------
(* Claims about the identity of a conflict (SpecHash) *)

\* C3: the conflict built as (fileA,clockA,fileB,clockB) and the conflict
\* built as (fileB,clockB,fileA,clockA) have the same hashme value and
\* compare equal.
C3_OrderIndependentIdentity ==
    pc = "done" => Unwrap(ret).h12 = Unwrap(ret).h21 /\ Unwrap(ret).eq

----------------------------------------------------------------------------
(* Claims about Clock::overlaps (SpecClock) *)

BothClosed == IsSome(clock1.end) /\ IsSome(clock2.end)

\* the condition of the claim on the recorded timestamps of the two clocks
RecordedIntervalsOverlap ==
    ~(Unwrap(clock1.end) <= clock2.start \/ clock1.start >= Unwrap(clock2.end))

SameZone ==
    tz_for_date(date(clock1.start)) = tz_for_date(date(clock2.start))

----------------------------------------------------------------------------
(* Spec: detect a conflict, ask for its options, resolve it, apply the edits *)

FirstFileLayouts == {<<"h", "c">>, <<"h", "c", "c">>, <<"h", "c", "h", "c">>}
SecondFileLayouts == {<<>>, <<"h", "c">>}

Init ==
    /\ parser = None /\ skipped = {}
    /\ now = LastTime + 1
    /\ \E t1 \in LayoutTexts(FirstFileLayouts, ClosedClockTexts \cup RunningClockTexts),
          t2 \in LayoutTexts(SecondFileLayouts, ClosedClockTexts \cup RunningClockTexts) :
          content = <<t1, t2>>
    /\ docs = ParseAll(content)
    /\ iter = find_conflicts(docs)
    /\ found = <<>>
    /\ pc = "detect"
    /\ conflict = None /\ options = <<>> /\ resolution = None
    /\ changes = None /\ result = None
    /\ clock1 = None /\ clock2 = None /\ ret = None

\* conflict.resolution_options()
Options ==
    /\ pc = "conflict"
    /\ options' = resolution_options(Unwrap(conflict))
    /\ pc' = "options"
    /\ UNCHANGED <<parser, skipped, now, content, docs, iter, found, conflict, resolution,
                   changes, result, clock1, clock2, ret>>

\* conflict.resolve(res), for any resolution a caller may pass
Resolve(res) ==
    /\ pc = "options"
    /\ resolution' = Some(res)
    /\ changes' = resolve(Unwrap(conflict), res)
    /\ pc' = IF changes'.tag = "Panic" THEN "panicked" ELSE "resolved"
    /\ UNCHANGED <<parser, skipped, now, content, docs, iter, found, conflict, options,
                   result, clock1, clock2, ret>>

\* FileChange::apply(changes): nothing for no changes; else the file of the
\* first change is read, patched with apply_to_string and written back
Apply ==
    /\ pc = "resolved"
    /\ IF changes.val = <<>>
       THEN result' = Ok(<<>>) /\ content' = content
       ELSE LET file == changes.val[1].file
                r    == apply_to_string(changes.val, content[file])
            IN  /\ result' = r
                /\ content' = IF r.tag = "Ok" THEN [content EXCEPT ![file] = r.val]
                                              ELSE content
    /\ pc' = "applied"
    /\ UNCHANGED <<parser, skipped, now, docs, iter, found, conflict, options, resolution,
                   changes, clock1, clock2, ret>>

Next ==
    \/ NextSome
    \/ NextNone
    \/ Options
    \/ \E res \in ConflictResolution : Resolve(res)
    \/ Apply

Spec == Init /\ [][Next]_vars

----------------------------------------------------------------------------
(* Claims about the conflict resolver (Spec) *)

Range(s) == {s[i] : i \in DOMAIN s}

\* the two clocks of the conflict being handled, ordered by start time (the
\* first clock of the conflict counting as the earlier one on equal starts)
EarlierClock ==
    LET c == Unwrap(conflict)
    IN  IF c.clock1.start <= c.clock2.start THEN c.clock1 ELSE c.clock2
LaterClock ==
    LET c == Unwrap(conflict)
    IN  IF c.clock1.start <= c.clock2.start THEN c.clock2 ELSE c.clock1

SameFileSameHeading ==
    LET c == Unwrap(conflict)
    IN  c.file1 = c.file2 /\ c.headline1 = c.headline2

OptionsAsked == pc \in {"options", "resolved", "panicked", "applied"}

\* C8: resolution_options() returns exactly {Auto, Skip} for two clocks of
\* one file under one heading; otherwise exactly {ShrinkEarlier, ShrinkLater,
\* Skip} when earlier.end < later.end and exactly {SplitContaining,
\* RemoveInner, Skip} when earlier.end >= later.end.
C8_OptionsByShape ==
    OptionsAsked =>
        LET expected ==
                IF SameFileSameHeading THEN {"Auto", "Skip"}
                ELSE IF OptLt(EarlierClock.end, LaterClock.end)
                     THEN {"ShrinkEarlier", "ShrinkLater", "Skip"}
                     ELSE {"SplitContaining", "RemoveInner", "Skip"}
        IN  Range(options) = expected /\ Len(options) = Cardinality(expected)

\* the options of a conflict of two closed clocks under different headings,
\* the earlier one containing the later one and ending after it
C8_Witness ==
    /\ pc = "options"
    /\ ~SameFileSameHeading
    /\ IsSome(LaterClock.end)
    /\ EarlierClock.start < LaterClock.start
    /\ OptLt(LaterClock.end, EarlierClock.end)
    /\ Range(options) = {"SplitContaining", "RemoveInner", "Skip"}

\* C9: resolve() with a resolution other than Skip that resolution_options()
\* does not return for the conflict panics and returns no edits.
C9_UnofferedResolutionPanics ==
    (pc \in {"resolved", "panicked"} /\ resolution # Some("Skip")
        /\ Unwrap(resolution) \notin Range(options))
    => changes.tag = "Panic"

\* the clock of the conflict on the smaller line, the one on the larger line
UpperClock ==
    LET c == Unwrap(conflict)
    IN  IF c.clock1.line < c.clock2.line THEN c.clock1 ELSE c.clock2
LowerClock ==
    LET c == Unwrap(conflict)
    IN  IF c.clock1.line < c.clock2.line THEN c.clock2 ELSE c.clock1

MergedStart ==
    IF UpperClock.start < LowerClock.start THEN UpperClock.start
                                           ELSE LowerClock.start
\* the later of the recorded ends; the recorded end there is, when one clock
\* has none
MergedEnd ==
    IF UpperClock.end = None THEN LowerClock.end
    ELSE IF LowerClock.end = None THEN UpperClock.end
    ELSE IF Unwrap(UpperClock.end) < Unwrap(LowerClock.end) THEN LowerClock.end
    ELSE UpperClock.end

\* the line written for the merged clock: the merged interval and, when it
\* has an end, its length as hours and minutes
MergedLine ==
    <<ClockText(UpperClock.timestamp_type, MergedStart, MergedEnd,
        IF MergedEnd = None THEN None
        ELSE LET d == Unwrap(MergedEnd) - MergedStart
             IN  Some(DurationText(FALSE, d \div 60, d % 60)))>>

\* C10: for a same-file same-heading conflict resolve(Auto) emits exactly an
\* Update of the clock on the smaller line, with start the minimum of both
\* starts and end the maximum of both ends, and a Delete of the other clock;
\* applied, the text has one line fewer: the kept line shows the merged
\* interval with its recomputed duration, the other clock's line is gone and
\* every other line is as before.
C10_AutoMergesAndDeletes ==
    [][(pc = "resolved" /\ pc' = "applied" /\ SameFileSameHeading
            /\ resolution = Some("Auto"))
       => LET file == Unwrap(conflict).file1
              old  == lines(content[file])
              new  == lines(content'[file])
          IN  /\ changes = Ok(<<update(file, [UpperClock EXCEPT
                                                  !.start = MergedStart,
                                                  !.end = MergedEnd]),
                                delete(file, LowerClock)>>)
              /\ result'.tag = "Ok"
              /\ Len(new) = Len(old) - 1
              /\ \A n \in 1 .. Len(new) :
                     new[n] = IF n = UpperClock.line THEN MergedLine
                              ELSE IF n < LowerClock.line THEN old[n]
                              ELSE old[n + 1]
              /\ \A f \in Files \ {file} : content'[f] = content[f]
      ]_vars

\* the duplicate of scenario 1 merged: the clock on the smaller line starts
\* and ends after the other one
C10_Witness ==
    /\ pc = "applied" /\ SameFileSameHeading /\ resolution = Some("Auto")
    /\ result.tag = "Ok"
    /\ IsSome(UpperClock.end) /\ IsSome(LowerClock.end)
    /\ LowerClock.start < UpperClock.start
    /\ Unwrap(LowerClock.end) < Unwrap(UpperClock.end)

\* the files of the earlier and of the later clock of the conflict
EarlierFile ==
    LET c == Unwrap(conflict)
    IN  IF c.clock1.start <= c.clock2.start THEN c.file1 ELSE c.file2
LaterFile ==
    LET c == Unwrap(conflict)
    IN  IF c.clock1.start <= c.clock2.start THEN c.file2 ELSE c.file1

\* the intervals are not nested: earlier.end < later.end
NotNested == OptLt(EarlierClock.end, LaterClock.end)

\* the line written for a closed clock from s to e
ClosedLine(timestamp_type, s, e) ==
    <<ClockText(timestamp_type, s, Some(e),
                Some(DurationText(FALSE, (e - s) \div 60, (e - s) % 60)))>>

\* new is old with line n replaced by the given line
LineReplaced(old, new, n, line) ==
    /\ Len(new) = Len(old)
    /\ \A m \in 1 .. Len(new) : new[m] = IF m = n THEN line ELSE old[m]

ResolveStep(res) ==
    pc = "options" /\ pc' \in {"resolved", "panicked"} /\ resolution' = Some(res)
ApplyStep(res) ==
    pc = "resolved" /\ pc' = "applied" /\ resolution = Some(res)

\* C11: for a cross-heading or cross-file conflict whose intervals are not
\* nested, resolve(ShrinkEarlier) emits exactly one Update, of the earlier
\* clock in its file, with end := later.start; resolve(ShrinkLater) emits
\* exactly one Update, of the later clock in its file, with start :=
\* earlier.end.  Applied, only the line of the updated clock changes.
C11_ShrinkUpdatesOneClock ==
    [][LET Shape == ~SameFileSameHeading /\ NotNested IN
        /\ (ResolveStep("ShrinkEarlier") /\ Shape) =>
               changes' = Ok(<<update(EarlierFile,
                     [EarlierClock EXCEPT !.end = Some(LaterClock.start)])>>)
        /\ (ResolveStep("ShrinkLater") /\ Shape) =>
               /\ changes'.tag = "Ok"
               /\ IsSome(EarlierClock.end)
               /\ changes'.val = <<update(LaterFile,
                     [LaterClock EXCEPT !.start = Unwrap(EarlierClock.end)])>>
        /\ (ApplyStep("ShrinkEarlier") /\ Shape) =>
               /\ result'.tag = "Ok"
               /\ LineReplaced(lines(content[EarlierFile]),
                               lines(content'[EarlierFile]), EarlierClock.line,
                               ClosedLine(EarlierClock.timestamp_type,
                                          EarlierClock.start, LaterClock.start))
               /\ \A f \in Files \ {EarlierFile} : content'[f] = content[f]
        /\ (ApplyStep("ShrinkLater") /\ Shape) =>
               /\ result'.tag = "Ok"
               /\ LineReplaced(lines(content[LaterFile]),
                               lines(content'[LaterFile]), LaterClock.line,
                               ClosedLine(LaterClock.timestamp_type,
                                          Unwrap(EarlierClock.end),
                                          Unwrap(LaterClock.end)))
               /\ \A f \in Files \ {LaterFile} : content'[f] = content[f]
      ]_vars

\* the earlier clock contains the later one: earlier.end >= later.end
Contains == ~SameFileSameHeading /\ ~NotNested

\* C12: for a cross-heading conflict whose earlier clock contains the later
\* one, resolve(SplitContaining) emits an Update and an Add on the line of
\* the containing clock, in its file: the fragments [earlier.start,
\* later.start) and [later.end, earlier.end).  Applied, the added fragment
\* is on the original line, the updated fragment on the line after it, and
\* every other line, the contained clock's included, is as before.
C12_SplitContainingMakesTwoFragments ==
    [][/\ (ResolveStep("SplitContaining") /\ Contains) =>
               /\ changes'.tag = "Ok"
               /\ IsSome(LaterClock.end)
               /\ Len(changes'.val) = 2
               /\ Range(changes'.val) =
                    {update(EarlierFile,
                         [EarlierClock EXCEPT !.end = Some(LaterClock.start)]),
                     add(EarlierFile,
                         [EarlierClock EXCEPT !.start = Unwrap(LaterClock.end)])}
       /\ (ApplyStep("SplitContaining") /\ Contains) =>
               LET old == lines(content[EarlierFile])
                   new == lines(content'[EarlierFile])
                   n   == EarlierClock.line
               IN  /\ result'.tag = "Ok"
                   /\ Len(new) = Len(old) + 1
                   /\ new[n] = ClosedLine(EarlierClock.timestamp_type,
                                          Unwrap(LaterClock.end),
                                          Unwrap(EarlierClock.end))
                   /\ new[n + 1] = ClosedLine(EarlierClock.timestamp_type,
                                              EarlierClock.start, LaterClock.start)
                   /\ \A m \in 1 .. Len(old) :
                          m # n => old[m] = new[IF m < n THEN m ELSE m + 1]
                   /\ \A f \in Files \ {EarlierFile} : content'[f] = content[f]
      ]_vars

\* C13: resolve(Skip) returns no edits for a conflict of any shape, and
\* apply_to_string on the empty batch returns the text it was given, so that
\* no text is modified by skipping a conflict.
C13_SkipChangesNothing ==
    [][/\ ResolveStep("Skip") => changes' = Ok(<<>>)
       /\ ApplyStep("Skip") =>
              /\ \A f \in Files :
                     apply_to_string(changes.val, content[f]) = Ok(content[f])
              /\ content' = content
      ]_vars

\* a conflict of two clocks under different headings, one of them running,
\* has been skipped
C13_Witness ==
    /\ pc = "applied" /\ resolution = Some("Skip")
    /\ changes = Ok(<<>>)
    /\ ~SameFileSameHeading
    /\ EarlierClock.end = None

\* C20: resolve() accepts every option resolution_options() returns for the
\* same conflict: it returns a list of edits and does not panic, the clocks
\* being closed or running.
C20_OfferedOptionsAreAccepted ==
    (pc \in {"resolved", "panicked"} /\ Unwrap(resolution) \in Range(options))
        => changes.tag = "Ok"

----------------------------------------------------------------------------
(* SpecPatch: apply_to_string on a text and a batch of edits *)

\* two lines "a" and "b": each ended by "\n", the last one not ended, or each
\* ended by "\r\n"
PatchTexts ==
    {<<Word("a"), NL, Word("b"), NL>>,
     <<Word("a"), NL, Word("b")>>,
     <<Word("a"), CR, NL, Word("b"), CR, NL>>}

\* the edits of a batch: any kind, either file, a line of the text, and one
\* of two clocks
PatchEdits ==
    {FileChange(kind, f, Clock(l, 0, None, s, Some(s + 1), "Inactive")) :
        kind \in {"AddedClock", "DeletedClock", "UpdateClock"},
        f \in Files, l \in {1, 2}, s \in {FirstTime, FirstTime + 1}}

Batches == UNION {[1 .. n -> PatchEdits] : n \in 0 .. MaxBatch}

InitPatch ==
    /\ parser = None /\ skipped = {}
    /\ now = LastTime + 1
    /\ \E t \in PatchTexts : content = [f \in Files |-> t]
    /\ \E b \in Batches : changes = Ok(b)
    /\ pc = "call"
    /\ result = None
    /\ docs = <<>> /\ iter = NoIter /\ found = <<>>
    /\ conflict = None /\ options = <<>> /\ resolution = None
    /\ clock1 = None /\ clock2 = None /\ ret = None

\* FileChange::apply_to_string(changes, file_content)
CallApplyToString ==
    /\ pc = "call"
    /\ result' = apply_to_string(changes.val, content[1])
    /\ pc' = "done"
    /\ UNCHANGED <<parser, skipped, now, content, docs, iter, found, conflict, options,
                   resolution, changes, clock1, clock2, ret>>

NextPatch == CallApplyToString

SpecPatch == InitPatch /\ [][NextPatch]_vars

----------------------------------------------------------------------------
(* Claims about the patch applier (SpecPatch) *)

\* the lines of a text with their terminators: each piece ends with its "\n",
\* but for a last piece that has none
RECURSIVE RawLines(_, _, _)
RawLines(text, i, cur) ==
    IF i > Len(text)
    THEN IF cur = <<>> THEN <<>> ELSE <<cur>>
    ELSE IF text[i] = NL
         THEN <<Append(cur, NL)>> \o RawLines(text, i + 1, <<>>)
         ELSE RawLines(text, i + 1, Append(cur, text[i]))

RECURSIVE IsSubsequence(_, _)
IsSubsequence(a, b) ==
    IF a = <<>> THEN TRUE
    ELSE IF b = <<>> THEN FALSE
    ELSE IF Head(a) = Head(b) THEN IsSubsequence(Tail(a), Tail(b))
    ELSE IsSubsequence(a, Tail(b))

SelectIndices(s, keep) ==
    LET RECURSIVE Sel(_)
        Sel(i) == IF i > Len(s) THEN <<>>
                  ELSE (IF i \in keep THEN <<s[i]>> ELSE <<>>) \o Sel(i + 1)
    IN  Sel(1)

Batch == changes.val
TargetLines == {Batch[i].clock.line : i \in DOMAIN Batch}
OneFile == \A i, j \in DOMAIN Batch : Batch[i].file = Batch[j].file

\* C5: for a non-empty batch of edits on one file, every input line that no
\* edit targets is in the output byte for byte, terminator included, and in
\* the same relative order.
C5_UntargetedLinesKept ==
    (pc = "done" /\ Batch # <<>> /\ OneFile) =>
        /\ result.tag = "Ok"
        /\ LET raw == RawLines(content[1], 1, <<>>)
           IN  IsSubsequence(
                   SelectIndices(raw, (1 .. Len(raw)) \ TargetLines),
                   RawLines(result.val, 1, <<>>))

Reorderings(s) ==
    {[i \in DOMAIN s |-> s[p[i]]] :
        p \in {q \in [DOMAIN s -> DOMAIN s] : \A i, j \in DOMAIN s :
                                                  q[i] = q[j] => i = j}}

\* C6: the output of apply_to_string is the same for every order in which
\* the edits of the batch are submitted.
C6_SubmissionOrderIrrelevant ==
    pc = "done" =>
        \A b \in Reorderings(Batch) : apply_to_string(b, content[1]) = result

\* C7: a batch with edits on two different files makes apply_to_string
\* return the error value and no text.
C7_MixedFilesIsError ==
    (pc = "done" /\ ~OneFile) =>
        result = Err("changes don't point to the same file")

\* a batch on two files has been refused
C7_Witness ==
    /\ pc = "done" /\ ~OneFile
    /\ result.tag = "Err"

----------------------------------------------------------------------------
(* SpecParse: OrgDocument::parse, one line of the text at a time *)

StarsLine(level) == [i \in 1 .. level |-> Star] \o <<Space, Word("h")>>

ClosedClockLine ==
    <<Space, ClockText("Inactive", FirstTime, Some(FirstTime + 1),
                       Some(DurationText(FALSE, 0, 1)))>>

\* the lines of the texts of SpecParse: headings of three levels, a closed
\* clock, clocks whose start has month 13 or hour 25, a clock whose end has
\* day 32, and a line of plain text
ParseInputLines ==
    {StarsLine(level) : level \in 1 .. 3}
        \cup {ClosedClockLine,
              <<Space, BadClockText("month", "none")>>,
              <<Space, BadClockText("hour", "none")>>,
              <<Space, BadClockText("none", "day")>>,
              <<Word("text")>>}

\* the lines of the texts of SpecBlocks: a heading, a closed clock, a clock
\* whose start has month 13, and block delimiters (the end delimiter with
\* the kind as in the begin delimiter, in capitals, and of another kind)
BlockInputLines ==
    {StarsLine(1), ClosedClockLine,
     <<Space, BadClockText("month", "none")>>,
     <<BlockBegin("src")>>,
     <<BlockEnd("src")>>, <<BlockEnd("SRC")>>, <<BlockEnd("example")>>}

TextsOf(input_lines) ==
    {JoinLines(ls) : ls \in UNION {[1 .. n -> input_lines] : n \in 0 .. MaxLines}}

InitLines(input_lines) ==
    /\ skipped = {}
    /\ now = LastTime + 1
    /\ \E t \in TextsOf(input_lines) : content = <<t, <<>>>>
    /\ parser = [st |-> ParseStart, i |-> 0]
    /\ pc = "parsing"
    /\ docs = <<>> /\ iter = NoIter /\ found = <<>>
    /\ conflict = None /\ options = <<>> /\ resolution = None
    /\ changes = None /\ result = None
    /\ clock1 = None /\ clock2 = None /\ ret = None

InitParse == InitLines(ParseInputLines)

InitBlocks == InitLines(BlockInputLines)

\* the line the loop of parse takes next, and the locals after its iteration
NextLine == lines(content[1])[parser.i + 1]
\* (variant of the line number: one more than the number of records so far)
AfterLine_counts_records ==
    ParseLine(parser.st, NextLine,
              Len(parser.st.headlines) + Len(parser.st.clocks) + 1)

AfterLine == ParseLine(parser.st, NextLine, parser.i + 1)

\* one iteration of the loop over content.lines()
ParseStep ==
    /\ pc = "parsing"
    /\ parser.i < Len(lines(content[1]))
    /\ ~AfterLine.panicked
    /\ parser' = [st |-> AfterLine, i |-> parser.i + 1]
    /\ UNCHANGED <<skipped, now, pc, content, docs, iter, found, conflict,
                   options, resolution, changes, result, clock1, clock2, ret>>

\* an iteration in which Clock::try_from panics: parse is unwound
ParsePanic ==
    /\ pc = "parsing"
    /\ parser.i < Len(lines(content[1]))
    /\ AfterLine.panicked
    /\ parser' = [st |-> AfterLine, i |-> parser.i + 1]
    /\ pc' = "panicked"
    /\ UNCHANGED <<skipped, now, content, docs, iter, found, conflict,
                   options, resolution, changes, result, clock1, clock2, ret>>

\* after the last line parse returns the document
ParseReturn ==
    /\ pc = "parsing"
    /\ parser.i = Len(lines(content[1]))
    /\ docs' = <<OrgDocument(1, parser.st.headlines, parser.st.clocks)>>
    /\ pc' = "parsed"
    /\ UNCHANGED <<parser, skipped, now, content, iter, found, conflict,
                   options, resolution, changes, result, clock1, clock2, ret>>

NextParse == ParseStep \/ ParsePanic \/ ParseReturn

SpecParse == InitParse /\ [][NextParse]_vars

SpecBlocks == InitBlocks /\ [][NextParse]_vars

----------------------------------------------------------------------------
(* SpecDuration: Clock::matches_duration, of clock.rs and of lib.rs *)

\* a duration string without a colon
NoColonText == [colon |-> FALSE]

\* duration_string.split_once(':') gives Some
HasColon(duration_string) == "h" \in DOMAIN duration_string

\* the hours and minutes of the string as a signed number of minutes
ParsedDuration(duration_string) ==
    LET parsed == duration_string.h * 60 + duration_string.m
    IN  IF duration_string.neg THEN 0 - parsed ELSE parsed

\* clock.rs: a running clock matches; a closed clock matches when its
\* string splits at a colon and gives end - start
matches_duration(c) ==
    IF is_running(c) THEN TRUE
    ELSE IF c.duration_string = None THEN FALSE
    ELSE IF ~HasColon(Unwrap(c.duration_string)) THEN FALSE
    ELSE ParsedDuration(Unwrap(c.duration_string))
             = start_end(c.start, c.end)[2] - start_end(c.start, c.end)[1]

\* lib.rs: both the string and the end have to be present
lib_matches_duration(c) ==
    IF c.duration_string = None \/ c.end = None THEN FALSE
    ELSE IF ~HasColon(Unwrap(c.duration_string)) THEN FALSE
    ELSE ParsedDuration(Unwrap(c.duration_string)) = Unwrap(c.end) - c.start

DurationStrings ==
    {None, Some(NoColonText)}
        \cup {Some(DurationText(neg, h, m)) :
                  neg \in BOOLEAN, h \in 0 .. 1, m \in 0 .. MaxTime}

DurationClocks ==
    {Clock(1, 0, d, s, e, "Inactive") :
         d \in DurationStrings, s \in Times, e \in {None} \cup {Some(t) : t \in Times}}

InitDuration ==
    /\ parser = None /\ skipped = {}
    /\ now = LastTime + 1
    /\ clock1 \in DurationClocks
    /\ clock2 = None
    /\ pc = "call"
    /\ ret = None
    /\ content = <<>> /\ docs = <<>> /\ iter = NoIter /\ found = <<>>
    /\ conflict = None /\ options = <<>> /\ resolution = None
    /\ changes = None /\ result = None

CallMatchesDuration ==
    /\ pc = "call"
    /\ ret' = Some(matches_duration(clock1))
    /\ pc' = "done"
    /\ UNCHANGED <<parser, skipped, now, content, docs, iter, found, conflict, options,
                   resolution, changes, result, clock1, clock2>>

CallLibMatchesDuration ==
    /\ pc = "call"
    /\ ret' = Some(lib_matches_duration(clock1))
    /\ pc' = "done"
    /\ UNCHANGED <<parser, skipped, now, content, docs, iter, found, conflict, options,
                   resolution, changes, result, clock1, clock2>>

NextDuration == CallMatchesDuration \/ CallLibMatchesDuration

SpecDuration == InitDuration /\ [][NextDuration]_vars

\* C17: matches_duration gives true for every running clock, whatever its
\* duration string is
C17_RunningClockMatches ==
    (pc = "done" /\ is_running(clock1)) => ret = Some(TRUE)

----------------------------------------------------------------------------
(* SpecFix: the conflict-fix loop: detect, handle one conflict, write the
   edits, parse every file again and restart the detection; the hashme
   values of skipped conflicts are remembered in skipped *)

\* one file of three headings with one closed clock each
FixLayouts == {<<"h", "c", "h", "c", "h", "c">>}

InitFix ==
    /\ parser = None
    /\ skipped = {}
    /\ now = LastTime + 1
    /\ \E t1 \in LayoutTexts(FixLayouts, ClosedClockTexts) : content = <<t1, <<>>>>
    /\ docs = ParseAll(content)
    /\ iter = find_conflicts(docs)
    /\ found = <<>>
    /\ pc = "detect"
    /\ conflict = None /\ options = <<>> /\ resolution = None
    /\ changes = None /\ result = None
    /\ clock1 = None /\ clock2 = None /\ ret = None

\* the detection yields a conflict that was not skipped: it is presented
FixPresent ==
    /\ pc = "detect"
    /\ next(iter)[2] # None
    /\ hashme(Unwrap(next(iter)[2])) \notin skipped
    /\ iter' = next(iter)[1]
    /\ conflict' = next(iter)[2]
    /\ options' = resolution_options(Unwrap(next(iter)[2]))
    /\ pc' = "conflict"
    /\ UNCHANGED <<parser, skipped, now, content, docs, found, resolution,
                   changes, result, clock1, clock2, ret>>

\* the detection yields a conflict whose hashme value is remembered
FixPassSkipped ==
    /\ pc = "detect"
    /\ next(iter)[2] # None
    /\ hashme(Unwrap(next(iter)[2])) \in skipped
    /\ iter' = next(iter)[1]
    /\ UNCHANGED <<parser, skipped, now, pc, content, docs, found, conflict, options,
                   resolution, changes, result, clock1, clock2, ret>>

\* no conflict is left: the loop ends
FixFinished ==
    /\ pc = "detect"
    /\ next(iter)[2] = None
    /\ iter' = next(iter)[1]
    /\ pc' = "finished"
    /\ UNCHANGED <<parser, skipped, now, content, docs, found, conflict, options,
                   resolution, changes, result, clock1, clock2, ret>>

\* the presented conflict is skipped: no edits, its hashme value is kept
FixSkip ==
    /\ pc = "conflict"
    /\ resolution' = Some("Skip")
    /\ changes' = resolve(Unwrap(conflict), "Skip")
    /\ skipped' = skipped \cup {hashme(Unwrap(conflict))}
    /\ pc' = "detect"
    /\ UNCHANGED <<parser, now, content, docs, iter, found, conflict, options,
                   result, clock1, clock2, ret>>

\* the presented conflict is resolved with one of its options: the edits are
\* written, every file is parsed again and the detection restarts
FixResolve(res) ==
    /\ pc = "conflict"
    /\ res # "Skip"
    /\ \E n \in 1 .. Len(options) : options[n] = res
    /\ resolution' = Some(res)
    /\ changes' = resolve(Unwrap(conflict), res)
    /\ IF changes'.tag = "Panic"
       THEN pc' = "panicked" /\ UNCHANGED <<content, docs, iter, result>>
       ELSE LET file == changes'.val[1].file
                r    == apply_to_string(changes'.val, content[file])
            IN  /\ result' = r
                /\ content' = IF r.tag = "Ok" THEN [content EXCEPT ![file] = r.val]
                                              ELSE content
                /\ docs' = ParseAll(content')
                /\ iter' = find_conflicts(docs')
                /\ pc' = "detect"
    /\ UNCHANGED <<parser, skipped, now, found, conflict, options, clock1, clock2, ret>>

NextFix ==
    \/ FixPresent
    \/ FixPassSkipped
    \/ FixFinished
    \/ FixSkip
    \/ \E res \in ConflictResolution : FixResolve(res)

SpecFix == InitFix /\ [][NextFix]_vars

----------------------------------------------------------------------------
(* SpecLoop: the conflict-fix loop on clocks of any duration, negative ones
   included, with the fairness of sequential code *)

\* a window of times of one zone (Europe/Berlin, from the cutoff date on)
LoopTimes == (TZ_CUTOFF_DATE * 1440) .. (TZ_CUTOFF_DATE * 1440 + MaxTime)

\* a closed clock line as org-mode writes it, "=> -h:mm" when end < start
LoopClockText(s, e) ==
    ClockText("Inactive", s, Some(e),
              Some(DurationText(e < s, 0, IF e < s THEN s - e ELSE e - s)))

AnyClosedClockTexts == {LoopClockText(s, e) : s \in LoopTimes, e \in LoopTimes}

\* one file of three headings with one clock each: a clock over the whole
\* window and two clocks of any start and end
LoopTexts ==
    {JoinLines(<<HeadingLine,
                 <<Space, LoopClockText(TZ_CUTOFF_DATE * 1440,
                                        TZ_CUTOFF_DATE * 1440 + MaxTime)>>,
                 HeadingLine, <<Space, t2>>, HeadingLine, <<Space, t3>>>>) :
         t2 \in AnyClosedClockTexts, t3 \in AnyClosedClockTexts}

InitLoop ==
    /\ parser = None
    /\ skipped = {}
    /\ now = TZ_CUTOFF_DATE * 1440 + MaxTime + 1
    /\ \E t1 \in LoopTexts : content = <<t1, <<>>>>
    /\ docs = ParseAll(content)
    /\ iter = find_conflicts(docs)
    /\ found = <<>>
    /\ pc = "detect"
    /\ conflict = None /\ options = <<>> /\ resolution = None
    /\ changes = None /\ result = None
    /\ clock1 = None /\ clock2 = None /\ ret = None

\* the loop is sequential code: while it detects or handles a conflict it
\* does not stop, so its position keeps changing
LoopRuns ==
    /\ pc \in {"detect", "conflict"}
    /\ pc' \in {"detect", "conflict", "finished", "panicked"}

SpecLoop == InitLoop /\ [][NextFix]_vars /\ WF_pc(LoopRuns)

----------------------------------------------------------------------------
(* Claims about the fix loop *)

\* what a clock says, its position in the file aside
ClockContent(c) == <<c.start, c.end, c.duration_string, c.timestamp_type>>

\* the conflict a hashed value stands for, by its files and the contents of
\* its two clocks: what stays the same when lines above the clocks are
\* added or deleted
ConflictContent(h) == <<h[1], h[2], {ClockContent(h[3]), ClockContent(h[4])}>>

\* the hashme values of the overlapping pairs of clocks of parsed documents
ConflictHashes(org_docs) ==
    LET data == FlattenClocks(org_docs, 1, 1)
    IN  {hashme(ConflictAt(data, i, j)) :
             <<i, j>> \in {q \in (0 .. Len(data) - 1) \X (0 .. Len(data) - 1) :
                              /\ q[1] # q[2]
                              /\ overlaps(data[q[1] + 1].clock, data[q[2] + 1].clock)}}

\* no two clocks of the documents say the same, so that the content of a
\* conflict names one pair of clocks
DistinctClocks(org_docs) ==
    LET data == FlattenClocks(org_docs, 1, 1)
    IN  \A i, j \in 1 .. Len(data) :
            i # j => ClockContent(data[i].clock) # ClockContent(data[j].clock)

\* C18: when the edits for another conflict are written and the files are
\* parsed again, a skipped conflict that is still there has the hashme value
\* it had before (and so is not presented again)
C18_SkippedConflictKeepsHash ==
    [][(pc = "conflict" /\ pc' = "detect" /\ resolution' # Some("Skip")
            /\ DistinctClocks(docs) /\ DistinctClocks(docs'))
        => \A h \in skipped \cap ConflictHashes(docs) :
               \A h2 \in ConflictHashes(docs') :
                   ConflictContent(h2) = ConflictContent(h) => h2 = h]_vars

\* C21: the fix loop terminates: whichever of its options each presented
\* conflict is handled with, the detection eventually reports no conflict
\* that was not skipped
C21_LoopTerminates == <>(pc = "finished")

----------------------------------------------------------------------------
(* Claims about the parser *)

\* the heading of the list that a 0-based index names
HeadlineAt(index) == parser.st.headlines[index + 1]

\* C14: every heading's parent names a heading of strictly smaller level on
\* a strictly smaller line, after any number of lines, top-level headings
\* and documents that begin with a deep heading included
C14_ParentIsShallowerAndEarlier ==
    \A n \in 1 .. Len(parser.st.headlines) :
        LET h == parser.st.headlines[n]
        IN  /\ h.parent < Len(parser.st.headlines)
            /\ HeadlineAt(h.parent).level < h.level
            /\ HeadlineAt(h.parent).line < h.line

\* C15: every recorded clock names a heading of the list, that heading is on
\* an earlier line, no heading line lies between the two, and so a clock
\* line met before any heading is not recorded
C15_ClockBelongsToNearestHeading ==
    \A n \in 1 .. Len(parser.st.clocks) :
        LET c == parser.st.clocks[n]
        IN  /\ c.parent \in 0 .. Len(parser.st.headlines) - 1
            /\ HeadlineAt(c.parent).line < c.line
            /\ \A m \in 1 .. Len(parser.st.headlines) :
                   ~(HeadlineAt(c.parent).line < parser.st.headlines[m].line
                        /\ parser.st.headlines[m].line < c.line)
            /\ \A j \in HeadlineAt(c.parent).line + 1 .. c.line - 1 :
                   ~IsSome(Headline_try_from(lines(content[1])[j]))

\* a clock recorded under the second, deeper heading of two
C15_Witness ==
    /\ Len(parser.st.headlines) = 2
    /\ HeadlineAt(0).level < HeadlineAt(1).level
    /\ \E n \in 1 .. Len(parser.st.clocks) : parser.st.clocks[n].parent = 1

\* the kind of a block delimiter in small letters
to_lowercase(kind) == IF kind = "SRC" THEN "src" ELSE kind

\* the line holds an end delimiter of the kind of the open block, the case
\* of the letters aside
EndsOpenBlock(s) ==
    \E p \in 1 .. Len(s) :
        /\ s[p].k = "end"
        /\ to_lowercase(s[p].kind) = to_lowercase(Unwrap(parser.st.current_block).kind)

\* C16: a line read while a block is open is never recorded as a heading or
\* a clock; it closes the block exactly when it is an end delimiter of the
\* block's kind (case aside), after which lines are interpreted again
C16_BlockSkipsUntilMatchingEnd ==
    [][(pc = "parsing" /\ parser.i < Len(lines(content[1]))
            /\ IsSome(parser.st.current_block))
        => /\ parser'.st.headlines = parser.st.headlines
           /\ parser'.st.clocks = parser.st.clocks
           /\ parser'.st.current_block =
                  IF EndsOpenBlock(NextLine) THEN None
                  ELSE parser.st.current_block]_vars

\* the line holds a clock whose fields do not form a date and a time
IsInvalidClockLine(s) == \E p \in 1 .. Len(s) : s[p].k = "badclock"

\* C19: a clock line with an invalid date or time gives an error value:
\* parse does not abort on it and records no clock for it
C19_InvalidClockIsSkipped ==
    /\ pc # "panicked"
    /\ \A j \in 1 .. parser.i :
           IsInvalidClockLine(lines(content[1])[j])
               => \A n \in 1 .. Len(parser.st.clocks) : parser.st.clocks[n].line # j

----------------------------------------------------------------------------
(* SpecZones: detect, ask for the options, resolve and apply, for clocks
   that lie hours apart on both sides of the cutoff date *)

\* times three hours apart, from 21:00 of the day before the cutoff date on
ZoneTimes == {TZ_CUTOFF_DATE * 1440 + 180 * n : n \in -1 .. MaxTime}

\* closed clocks with end >= start and the duration org-mode records
ZoneClockTexts ==
    {ClockText("Inactive", p[1], Some(p[2]),
               Some(DurationText(FALSE, (p[2] - p[1]) \div 60, (p[2] - p[1]) % 60))) :
        p \in {q \in ZoneTimes \X ZoneTimes : q[1] <= q[2]}}

\* two headings with one clock each, or one heading with two clocks
ZoneLayouts == {<<"h", "c", "h", "c">>, <<"h", "c", "c">>}

InitZones ==
    /\ parser = None /\ skipped = {}
    /\ now = TZ_CUTOFF_DATE * 1440 + 180 * (MaxTime + 1)
    /\ \E t1 \in LayoutTexts(ZoneLayouts, ZoneClockTexts) : content = <<t1, <<>>>>
    /\ docs = ParseAll(content)
    /\ iter = find_conflicts(docs)
    /\ found = <<>>
    /\ pc = "detect"
    /\ conflict = None /\ options = <<>> /\ resolution = None
    /\ changes = None /\ result = None
    /\ clock1 = None /\ clock2 = None /\ ret = None

SpecZones == InitZones /\ [][Next]_vars

\* an offered resolution other than Skip was applied to a conflict of two
\* closed clocks with end >= start, the only clocks of the documents (so
\* that every clock found afterwards replaces the pair)
ResolvedClosedConflict ==
    /\ pc = "applied"
    /\ Len(FlattenClocks(docs, 1, 1)) = 2
    /\ resolution # Some("Skip")
    /\ \E n \in 1 .. Len(options) : Some(options[n]) = resolution
    /\ changes.tag = "Ok" /\ result.tag = "Ok"
    /\ \A c \in {Unwrap(conflict).clock1, Unwrap(conflict).clock2} :
           IsSome(c.end) /\ Unwrap(c.end) >= c.start

\* the clock of the conflict is the target of an Update or a Delete
IsReplaced(file, c) ==
    \E n \in 1 .. Len(changes.val) :
        /\ changes.val[n].kind \in {"UpdateClock", "DeletedClock"}
        /\ changes.val[n].file = file
        /\ changes.val[n].clock.line = c.line

\* what the clocks that replace the pair say: the updated and added clocks
\* and the clocks of the pair that no edit touches
ReplacementContents ==
    {ClockContent([changes.val[n].clock EXCEPT
                       !.duration_string = Display(changes.val[n].clock).dur]) :
         n \in {m \in 1 .. Len(changes.val) :
                    changes.val[m].kind \in {"UpdateClock", "AddedClock"}}}
        \cup (IF IsReplaced(Unwrap(conflict).file1, Unwrap(conflict).clock1) THEN {}
              ELSE {ClockContent(Unwrap(conflict).clock1)})
        \cup (IF IsReplaced(Unwrap(conflict).file2, Unwrap(conflict).clock2) THEN {}
              ELSE {ClockContent(Unwrap(conflict).clock2)})

\* the clocks of the texts as they are now, parsed again
ReparsedClocks == FlattenClocks(ParseAll(content), 1, 1)

\* C22: after a resolution other than Skip is applied and the text parsed
\* again, the clocks that replace the pair are all there and no two of them
\* overlap
C22_ResolutionRemovesConflict ==
    ResolvedClosedConflict
        => /\ \A x \in ReplacementContents :
                  \E n \in 1 .. Len(ReparsedClocks) :
                      ClockContent(ReparsedClocks[n].clock) = x
           /\ \A n, m \in 1 .. Len(ReparsedClocks) :
                  (/\ n # m
                   /\ ClockContent(ReparsedClocks[n].clock) \in ReplacementContents
                   /\ ClockContent(ReparsedClocks[m].clock) \in ReplacementContents)
                      => ~overlaps(ReparsedClocks[n].clock, ReparsedClocks[m].clock)

----------------------------------------------------------------------------
(* More claims about the parser *)

\* the headings before the n-th that enclose it: a smaller level, and every
\* heading in between deeper than they are
Enclosing(n) ==
    {m \in 1 .. n - 1 :
        /\ parser.st.headlines[m].level < parser.st.headlines[n].level
        /\ \A k \in m + 1 .. n - 1 :
               parser.st.headlines[k].level > parser.st.headlines[m].level}

\* C23: the parent of a heading that has an enclosing heading is the nearest
\* of the enclosing headings; siblings and deeper headings are closed first
C23_ParentIsNearestEnclosing ==
    \A n \in 1 .. Len(parser.st.headlines) :
        Enclosing(n) # {}
            => /\ parser.st.headlines[n].parent + 1 \in Enclosing(n)
               /\ \A m \in Enclosing(n) : m <= parser.st.headlines[n].parent + 1

\* `* A` / `** B` / `*** C` / `** D`: the parent of D is A
C23_Witness ==
    /\ Len(parser.st.headlines) = 4
    /\ [n \in 1 .. 4 |-> parser.st.headlines[n].level] = <<1, 2, 3, 2>>
    /\ parser.st.headlines[4].parent = 0

----------------------------------------------------------------------------
(* SpecFixup: FileChange::fixup_headline and FileChange::fixup_clock *)

\* FileChange::line
line(change) == change.clock.line

\* (variant of fixup_headline that does not move a heading below an added
\* line)
fixup_headline_add_ignored(change, headline) ==
    IF headline.line < line(change) THEN Ok(headline)
    ELSE IF headline.line = line(change)
    THEN Panic("file change modifies line number of headline. This is not supported.")
    ELSE IF change.kind = "DeletedClock"
    THEN Ok([headline EXCEPT !.line = headline.line - 1])
    ELSE Ok(headline)

\* FileChange::fixup_headline; the headline is changed in place, the result
\* is the headline afterwards or the panic
fixup_headline(change, headline) ==
    IF headline.line < line(change) THEN Ok(headline)
    ELSE IF headline.line = line(change)
    THEN Panic("file change modifies line number of headline. This is not supported.")
    ELSE CASE change.kind = "DeletedClock" -> Ok([headline EXCEPT !.line = @ - 1])
           [] change.kind = "AddedClock" -> Ok([headline EXCEPT !.line = @ + 1])
           [] OTHER -> Ok(headline)

\* (variant of fixup_clock that leaves a clock on the line of an Add in place)
fixup_clock_add_below(change, clock) ==
    IF clock.line < line(change)
           \/ (clock.line = line(change) /\ change.kind = "AddedClock")
    THEN Some(clock)
    ELSE CASE change.kind = "DeletedClock" ->
                  IF clock.line = line(change) THEN None
                  ELSE Some([clock EXCEPT !.line = @ - 1])
           [] change.kind = "AddedClock" -> Some([clock EXCEPT !.line = @ + 1])
           [] OTHER -> Some(clock)

\* FileChange::fixup_clock
fixup_clock(change, clock) ==
    IF clock.line < line(change) THEN Some(clock)
    ELSE CASE change.kind = "DeletedClock" ->
                  IF clock.line = line(change) THEN None
                  ELSE Some([clock EXCEPT !.line = @ - 1])
           [] change.kind = "AddedClock" -> Some([clock EXCEPT !.line = @ + 1])
           [] OTHER -> Some(clock)

\* a document with one heading and one clock, each on any line, and one
\* edit of any kind on any line
InitFixup ==
    /\ parser = None /\ skipped = {}
    /\ now = LastTime + 1
    /\ content = <<>>
    /\ \E hl \in 1 .. MaxLines, cl \in 1 .. MaxLines :
           docs = <<OrgDocument(1, <<Headline(hl, 0, 1, <<Word("h")>>, None)>>,
                                <<Clock(cl, 0, None, FirstTime, None, "Inactive")>>)>>
    /\ \E kind \in {"DeletedClock", "AddedClock", "UpdateClock"}, e \in 1 .. MaxLines :
           changes = Ok(<<FileChange(kind, 1, Clock(e, 0, None, FirstTime, None, "Inactive"))>>)
    /\ pc = "call"
    /\ ret = None
    /\ iter = NoIter /\ found = <<>>
    /\ conflict = None /\ options = <<>> /\ resolution = None
    /\ result = None /\ clock1 = None /\ clock2 = None

CallFixupHeadline ==
    /\ pc = "call"
    /\ ret' = Some(fixup_headline(changes.val[1], docs[1].headlines[1]))
    /\ pc' = "headline"
    /\ UNCHANGED <<parser, skipped, now, content, docs, iter, found, conflict, options,
                   resolution, changes, result, clock1, clock2>>

CallFixupClock ==
    /\ pc = "call"
    /\ ret' = Some(fixup_clock(changes.val[1], docs[1].clocks[1]))
    /\ pc' = "clock"
    /\ UNCHANGED <<parser, skipped, now, content, docs, iter, found, conflict, options,
                   resolution, changes, result, clock1, clock2>>

NextFixup == CallFixupHeadline \/ CallFixupClock

SpecFixup == InitFixup /\ [][NextFixup]_vars

\* the line of the record after an edit of the kind on a line above it
ShiftedLine(kind, r) ==
    IF kind = "DeletedClock" THEN r - 1 ELSE IF kind = "AddedClock" THEN r + 1 ELSE r

\* C24: the fixup leaves a line below the edit's line alone, and for an
\* Update every line; a line above the edit's moves down by one for a
\* Delete and up by one for an Add; on the edit's own line a clock is
\* removed by a Delete and moved by an Add, and a headline is fatal
C24_FixupRule ==
    LET change == changes.val[1]
        e      == change.clock.line
        h      == docs[1].headlines[1]
        c      == docs[1].clocks[1]
    IN  /\ (pc = "headline" /\ h.line < e) => Unwrap(ret) = Ok(h)
        /\ (pc = "headline" /\ h.line = e) => Unwrap(ret).tag = "Panic"
        /\ (pc = "headline" /\ h.line > e) =>
               Unwrap(ret) = Ok([h EXCEPT !.line = ShiftedLine(change.kind, h.line)])
        /\ pc = "clock" =>
               Unwrap(ret) = IF c.line < e \/ change.kind = "UpdateClock" THEN Some(c)
                             ELSE IF c.line = e /\ change.kind = "DeletedClock" THEN None
                             ELSE Some([c EXCEPT !.line = ShiftedLine(change.kind, c.line)])

\* a clock on the line of an Add has been moved down by one
C24_Witness ==
    /\ pc = "clock"
    /\ changes.val[1].kind = "AddedClock"
    /\ docs[1].clocks[1].line = changes.val[1].clock.line
    /\ ret = Some(Some([docs[1].clocks[1] EXCEPT !.line = @ + 1]))

----------------------------------------------------------------------------
(* Claims about fixups and the re-parse of an edited file (Spec) *)

\* the parse of the file of an edit after that edit alone was made to it
EditedDoc(ch) == parse(ch.file, modify_file_content(ch, content[ch.file]))

FixupHeadlineAgrees(ch, h) ==
    LET f == fixup_headline(ch, h)
    IN  f.tag = "Ok" => f.val \in Range(EditedDoc(ch).headlines)

\* a clock on the line of an Update is kept on its line, where the re-parse
\* finds the updated clock; any other kept clock is found as it is
FixupClockAgrees(ch, c) ==
    LET f == fixup_clock(ch, c)
    IN  /\ (f = None) <=> (ch.kind = "DeletedClock" /\ c.line = line(ch))
        /\ IsSome(f) =>
               IF ch.kind = "UpdateClock" /\ c.line = line(ch)
               THEN \E r \in Range(EditedDoc(ch).clocks) : r.line = Unwrap(f).line
               ELSE Unwrap(f) \in Range(EditedDoc(ch).clocks)

\* C25: for a single edit produced by resolve() and applied to the text of
\* its file, every heading and every clock of the original parse that the
\* fixup keeps gets the line number at which the same record is found when
\* the edited text is parsed again, and a clock is removed by the fixup
\* exactly when its line is deleted by the edit.
C25_FixupAgreesWithReparse ==
    (pc = "resolved" /\ changes.tag = "Ok") =>
        \A i \in 1 .. Len(changes.val) :
            LET ch  == changes.val[i]
                doc == docs[ch.file]
            IN  /\ \A j \in 1 .. Len(doc.headlines) :
                       FixupHeadlineAgrees(ch, doc.headlines[j])
                /\ \A j \in 1 .. Len(doc.clocks) :
                       FixupClockAgrees(ch, doc.clocks[j])

\* resolve() has produced an Add above a heading and a clock of the file,
\* both moved down by the fixup
C25_Witness ==
    /\ pc = "resolved" /\ changes.tag = "Ok"
    /\ \E i \in 1 .. Len(changes.val) :
           LET ch  == changes.val[i]
               doc == docs[ch.file]
           IN  /\ ch.kind = "AddedClock"
               /\ \E j \in 1 .. Len(doc.headlines) :
                      /\ doc.headlines[j].line > line(ch)
                      /\ fixup_headline(ch, doc.headlines[j]).val.line
                             = doc.headlines[j].line + 1
               /\ \E j \in 1 .. Len(doc.clocks) :
                      /\ doc.clocks[j].line > line(ch)
                      /\ Unwrap(fixup_clock(ch, doc.clocks[j])).line
                             = doc.clocks[j].line + 1

----------------------------------------------------------------------------
(* Claims about the line numbers of the parser (SpecBlocks) *)

StrictlyIncreasingLines(records) ==
    \A i, j \in 1 .. Len(records) : i < j => records[i].line < records[j].line

\* the record the heading or the clock pattern gives for line n of the text
HeadlineOfLine(n) == Headline_try_from(lines(content[1])[n])
ClockOfLine(n) == Clock_try_from(lines(content[1])[n])

\* C26: every heading and clock the parser has recorded carries the 1-based
\* index of its source line among all lines of the text (lines inside
\* blocks, block delimiters, unrecognized lines and dropped clocks counted),
\* so the heading list and the clock list are strictly increasing in line.
C26_ExactLineNumbers ==
    pc \in {"parsing", "parsed"} =>
        /\ \A j \in 1 .. Len(parser.st.headlines) :
               LET h == parser.st.headlines[j]
               IN  /\ h.line \in 1 .. parser.i
                   /\ IsSome(HeadlineOfLine(h.line))
                   /\ Unwrap(HeadlineOfLine(h.line)).level = h.level
        /\ \A j \in 1 .. Len(parser.st.clocks) :
               LET c == parser.st.clocks[j]
               IN  /\ c.line \in 1 .. parser.i
                   /\ ClockOfLine(c.line).tag = "Ok"
                   /\ ClockOfLine(c.line).val.start = c.start
        /\ StrictlyIncreasingLines(parser.st.headlines)
        /\ StrictlyIncreasingLines(parser.st.clocks)

\* a document of one heading on line 1 and one clock on line 4: the two
\* lines between them gave no record
C26_Witness ==
    /\ pc = "parsed"
    /\ Len(docs[1].headlines) = 1 /\ docs[1].headlines[1].line = 1
    /\ Len(docs[1].clocks) = 1 /\ docs[1].clocks[1].line = 4

----------------------------------------------------------------------------
(* SpecHeadline: Headline::try_from on one line *)

\* the characters of the lines: the marker, a blank, a word and a tag group
HeadlineTokens == {Star, Space, Word("h"), Tags("t")}

HeadlineInputs ==
    UNION {[1 .. n -> HeadlineTokens] : n \in 0 .. MaxLines}

InitHeadline ==
    /\ parser = None /\ skipped = {}
    /\ now = LastTime + 1
    /\ \E s \in HeadlineInputs : content = <<s>>
    /\ docs = <<>>
    /\ pc = "call"
    /\ ret = None
    /\ iter = NoIter /\ found = <<>>
    /\ conflict = None /\ options = <<>> /\ resolution = None
    /\ changes = None /\ result = None /\ clock1 = None /\ clock2 = None

\* Headline::try_from(line): Some(headline) for Ok, None for Err
CallHeadlineTryFrom ==
    /\ pc = "call"
    /\ ret' = Some(Headline_try_from(content[1]))
    /\ pc' = "done"
    /\ UNCHANGED <<parser, skipped, now, content, docs, iter, found, conflict, options,
                   resolution, changes, result, clock1, clock2>>

NextHeadline == CallHeadlineTryFrom

SpecHeadline == InitHeadline /\ [][NextHeadline]_vars

----------------------------------------------------------------------------
(* Claims about Headline::try_from (SpecHeadline) *)

\* the number of marker characters at the start of the line
LeadingMarkers(s) == SkipKind(s, 1, {"star"}) - 1

\* C27: a line is recognized as a heading only if it begins with one or more
\* marker characters followed by the rest of the heading, and the level is
\* the number of marker characters at the start of the line; a line that
\* does not begin with a marker is not a heading.
C27_HeadingOnlyAtLineStart ==
    (pc = "done" /\ IsSome(Unwrap(ret))) =>
        /\ LeadingMarkers(content[1]) >= 1
        /\ LeadingMarkers(content[1]) < Len(content[1])
        /\ Unwrap(Unwrap(ret)).level = LeadingMarkers(content[1])

----------------------------------------------------------------------------
(* Claims about the edit batches of resolve (Spec) *)

\* the file and line of each of the two clocks of the conflict
ConflictTargets ==
    {<<Unwrap(conflict).file1, Unwrap(conflict).clock1.line>>,
     <<Unwrap(conflict).file2, Unwrap(conflict).clock2.line>>}

\* C28: every non-empty batch of edits returned by resolve() targets a single
\* file and only lines of the two conflicting clocks, so apply_to_string
\* does not return the mismatched-files error for it, also when the two
\* clocks are in different files.
C28_BatchOnOneFileAndConflictLines ==
    /\ (pc \in {"resolved", "applied"} /\ changes.tag = "Ok") =>
           \A i \in 1 .. Len(changes.val) :
               /\ changes.val[i].file = changes.val[1].file
               /\ <<changes.val[i].file, line(changes.val[i])>> \in ConflictTargets
    /\ pc = "applied" => result.tag = "Ok"

\* a batch of two edits for a conflict between clocks of two files has been
\* applied
C28_Witness ==
    /\ pc = "applied"
    /\ Unwrap(conflict).file1 # Unwrap(conflict).file2
    /\ Len(changes.val) = 2
    /\ result.tag = "Ok"

\* C29: if either clock of a same-file same-heading conflict is running, the
\* merged clock that resolve(Auto) writes is running too: a running clock is
\* never replaced by a closed clock that ends at the other clock's end.
C29_AutoMergeKeepsRunning ==
    (/\ pc \in {"resolved", "applied"}
     /\ SameFileSameHeading /\ resolution = Some("Auto")
     /\ changes.tag = "Ok"
     /\ (is_running(Unwrap(conflict).clock1) \/ is_running(Unwrap(conflict).clock2)))
        => /\ changes.val[1].kind = "UpdateClock"
           /\ is_running(changes.val[1].clock)

----------------------------------------------------------------------------
(* More claims about the patch applier (SpecPatch) *)

EditsOfKind(kind) == Cardinality({i \in DOMAIN Batch : Batch[i].kind = kind})

AllTargetsExist == \A i \in DOMAIN Batch : line(Batch[i]) \in 1 .. Len(lines(content[1]))

\* C30: for a text of n lines and a batch on one file whose edits all target
\* lines 1..n, the output of apply_to_string has n + (number of Adds) -
\* (number of Deletes) lines; no Add is lost, also when an Add and a Delete
\* target the same line.
C30_LineCountConserved ==
    (pc = "done" /\ OneFile /\ AllTargetsExist) =>
        /\ result.tag = "Ok"
        /\ Len(lines(result.val))
               = Len(lines(content[1])) + EditsOfKind("AddedClock")
                     - EditsOfKind("DeletedClock")

============================================================================
